---- MODULE Spec2Model ----
(***************************************************************************)
(* Model of the ndt7 download subtest handler, DownloadHandler.ServeHTTP   *)
(* (src/ndt7/server.go).  One request is served per behaviour: the query   *)
(* string and the Sec-WebSocket-Protocol header are chosen in Init, the    *)
(* handler then runs step by step.  Time is counted in units of half a     *)
(* measurement interval, relative to t0; it advances only while a write    *)
(* to the connection blocks.                                               *)
(***************************************************************************)
EXTENDS Integers, Sequences, FiniteSets, TLC

\* ------------------------------------------------------------- bounds
\* The model's horizon: no write ends later than MaxTime time units after t0.
MaxTime == 12
\* At most MaxFrames data frames are written in one session.
MaxFrames == 3
\* Bandwidth samples are drawn from 0..MaxBW and from SpecSamples.
MaxBW == 2
\* A write blocks for 0..MaxWriteTime time units (its deadline, past which
\* it fails, is not later than that).
MaxWriteTime == 3

\* ---------------------------------------------------------- constants
\* MinMeasurementInterval, in time units (the ticker's period).
MinMeasurementInterval == 2
\* time.Second: the measurement interval is a quarter of a second.
Second == 4 * MinMeasurementInterval
\* const defaultDuration = 10 * time.Second
defaultDuration == 10 * Second
\* const maxDuration = 30
maxDuration == 30
\* const bufferSize = 1 << 13
bufferSize == 8192
\* http.StatusBadRequest
StatusBadRequest == 400
\* websocket.CloseNormalClosure
CloseNormalClosure == 1000
\* The subprotocol identifier the server requires.
SecWebSocketProtocol == "net.measurementlab.ndt.v7"

\* ------------------------------------------------------------- inputs
\* Values of the "duration" query parameter, as strings of characters;
\* the empty string is what Query().Get returns for an absent parameter.
QueryInputs ==
  { <<>>, <<"0">>, <<"1">>, <<"3", "0">>, <<"3", "1">>,
    <<"-", "1">>, <<"a", "b", "c">>, <<"1", "a">>, <<"-">> }
\* Values of the Sec-WebSocket-Protocol request header ("" when missing).
HeaderInputs == { SecWebSocketProtocol, "", "ndt.v6" }
\* The bandwidth samples of the scenario 100, 120, 125 bytes/s.
SpecSamples == {100, 120, 125}
BWSamples == (0..MaxBW) \cup SpecSamples
\* What bbr.GetBBRInfo returns: an error, or a bandwidth sample.
SampleOutcomes ==
  {[err |-> TRUE, bw |-> 0]} \cup {[err |-> FALSE, bw |-> b] : b \in BWSamples}

\* ------------------------------------------------------- pure functions
DigitChars == <<"0", "1", "2", "3", "4", "5", "6", "7", "8", "9">>
IsDigit(c) == \E i \in 1..10 : DigitChars[i] = c
DigitVal(c) == (CHOOSE i \in 1..10 : DigitChars[i] = c) - 1

RECURSIVE DigitsVal(_)
\* The value of a string of decimal digits, most significant first.
DigitsVal(s) ==
  IF s = <<>> THEN 0
  ELSE 10 * DigitsVal(SubSeq(s, 1, Len(s) - 1)) + DigitVal(s[Len(s)])

\* strconv.Atoi: an optional sign, then one or more decimal digits.
AtoiBody(s) == IF s # <<>> /\ s[1] \in {"-", "+"} THEN Tail(s) ELSE s
AtoiOk(s) ==
  /\ AtoiBody(s) # <<>>
  /\ \A i \in 1..Len(AtoiBody(s)) : IsDigit(AtoiBody(s)[i])
AtoiVal(s) ==
  IF s[1] = "-" THEN 0 - DigitsVal(AtoiBody(s)) ELSE DigitsVal(AtoiBody(s))

\* The test cur >= prev left out: a falling bandwidth would stop the test.
stoppableAccordingToBW_NoFloor(prev, cur) ==
  4 * (cur - prev) < prev

\* The test cur > prev for cur >= prev: two equal samples would not stop.
stoppableAccordingToBW_Strict(prev, cur) ==
  cur > prev /\ 4 * (cur - prev) < prev

\* The comparison with <= for <: no growth from a zero sample would stop.
stoppableAccordingToBW_Le(prev, cur) ==
  cur >= prev /\ 4 * (cur - prev) <= prev

\* stoppableAccordingToBW(prev, cur): cur >= prev && (cur - prev) < 0.25 * prev.
\* The samples are whole numbers of bytes/s, so both sides are taken times 4.
stoppableAccordingToBW(prev, cur) ==
  cur >= prev /\ 4 * (cur - prev) < prev

\* The first ticker tick after time t: the ticker fires every interval.
NextTickAfter(t) == ((t \div MinMeasurementInterval) + 1) * MinMeasurementInterval

\* The ticker's channel (capacity 1) after time went from t to t + d: a
\* tick that finds the channel full is dropped.
TickChAfter(ch, t, d) ==
  IF ch = <<>> /\ NextTickAfter(t) <= t + d THEN <<NextTickAfter(t)>> ELSE ch

\* -------------------------------------------------------------- state
VARIABLES
  query,        \* request: the duration parameter's value
  protoHeader,  \* request: the Sec-WebSocket-Protocol header
  pc,           \* the handler's position
  status,       \* the status the handler wrote (0: none)
  connHeader,   \* the Connection response header the handler set
  upgrades,     \* calls of Upgrader.Upgrade
  conn,         \* the WebSocket connection: "none", "open", "closed"
  fd,           \* the BBR file descriptor, -1 when there is none
  fdOpen,       \* whether that descriptor is open
  ticker,       \* "none", "running", "stopped"
  tickCh,       \* ticker.C: <<>> or <<the buffered tick's time>>
  now,          \* time since t0
  duration,     \* the subtest's duration, in time units
  running, count, bandwidth,  \* the loop's variables
  measurement,  \* the measurement record last built
  measAt,       \* when the write of the last measurement record was called
  lastBW,       \* the last sample bbr.GetBBRInfo returned
  prevBW,       \* the retained value the last sample was compared with
  nData,        \* data frames written
  nMeas,        \* measurement frames written
  closeFrames,  \* the close frames written, in order
  lastFrame,    \* the last frame written: "none", "data", "meas", "close"
  failed,       \* a data or measurement write failed
  nSamples,     \* fresh bandwidth samples obtained
  stopReason    \* why running became false: "none", "bw", "duration"

request == <<query, protoHeader>>
response == <<status, connHeader, upgrades>>
resources == <<conn, fd, fdOpen, ticker>>
loopVars == <<running, count, bandwidth, measurement, nSamples, stopReason>>
history == <<measAt, lastBW, prevBW>>
frames == <<nData, nMeas, closeFrames, lastFrame, failed>>
clock == <<tickCh, now>>
vars == <<request, pc, response, resources, duration, loopVars, frames, clock,
          history>>

Init ==
  /\ query \in QueryInputs
  /\ protoHeader \in HeaderInputs
  /\ pc = "parse"
  /\ status = 0 /\ connHeader = "" /\ upgrades = 0
  /\ conn = "none" /\ fd = -1 /\ fdOpen = FALSE /\ ticker = "none"
  /\ tickCh = <<>> /\ now = 0
  /\ duration = 0
  /\ running = FALSE /\ count = 0 /\ bandwidth = 0
  /\ measurement = [Elapsed |-> 0, NumBytes |-> 0]
  /\ measAt = 0 /\ lastBW = 0 /\ prevBW = 0
  /\ nData = 0 /\ nMeas = 0 /\ closeFrames = <<>> /\ lastFrame = "none"
  /\ failed = FALSE /\ nSamples = 0 /\ stopReason = "none"

\* ------------------------------------------------------------ helpers
\* Connection: Close, StatusBadRequest, return.
BadRequest ==
  /\ connHeader' = "Close"
  /\ status' = StatusBadRequest
  /\ pc' = "returned"

\* The deferred calls run at return: ticker.Stop(), then conn.Close().
\* Nothing closes the BBR file descriptor.
Return ==
  /\ pc' = "returned"
  /\ ticker' = IF ticker = "running" THEN "stopped" ELSE ticker
  /\ conn' = "closed"
  /\ UNCHANGED <<fd, fdOpen>>

\* The error is logged and the return forgotten: the loop goes on.
WriteFailed_Continue ==
  /\ failed' = TRUE
  /\ pc' = "loop"
  /\ UNCHANGED resources

\* A data or measurement write returned an error: log and return.
WriteFailed ==
  /\ failed' = TRUE
  /\ Return

\* The upper bound with >= for >: 30 itself would be refused.
DurationInvalid_Ge(s) ==
  ~AtoiOk(s) \/ AtoiVal(s) < 0 \/ AtoiVal(s) >= maxDuration

\* Line 44: err != nil || value < 0 || value > maxDuration.
DurationInvalid(s) ==
  ~AtoiOk(s) \/ AtoiVal(s) < 0 \/ AtoiVal(s) > maxDuration

\* count += bufferSize placed before the error check.
CountAfterWrite_Early(c, ok) == c + bufferSize

\* Lines 130-134: count after WritePreparedMessage returned: a failed write
\* returns before count += bufferSize.
CountAfterWrite(c, ok) == IF ok THEN c + bufferSize ELSE c

\* A write to the connection blocks for d time units.
Blocks(d) ==
  /\ d \in 0..MaxWriteTime
  /\ now + d <= MaxTime
  /\ now' = now + d

\* ------------------------------------------------------------ actions
\* Lines 39-52: the duration parameter.
ParseDuration ==
  /\ pc = "parse"
  /\ IF query # <<>> /\ DurationInvalid(query)
       THEN BadRequest /\ UNCHANGED duration
       ELSE /\ duration' = IF query # <<>> THEN Second * AtoiVal(query)
                           ELSE defaultDuration
            /\ pc' = "negotiate"
            /\ UNCHANGED <<status, connHeader>>
  /\ UNCHANGED <<request, upgrades, resources, loopVars, frames, clock,
                 history>>

\* The header check without its return: the upgrade is attempted anyway.
CheckProtocol_NoReturn ==
  /\ pc = "negotiate"
  /\ IF protoHeader # SecWebSocketProtocol
       THEN connHeader' = "Close" /\ status' = StatusBadRequest
       ELSE UNCHANGED <<status, connHeader>>
  /\ pc' = "upgrade"
  /\ UNCHANGED <<request, upgrades, resources, duration, loopVars, frames, clock,
                 history>>

\* Lines 54-59: the subprotocol header.
CheckProtocol ==
  /\ pc = "negotiate"
  /\ IF protoHeader # SecWebSocketProtocol
       THEN BadRequest
       ELSE pc' = "upgrade" /\ UNCHANGED <<status, connHeader>>
  /\ UNCHANGED <<request, upgrades, resources, duration, loopVars, frames, clock,
                 history>>

\* A failed upgrade answered like the earlier errors, with a 400.
Upgrade_BadRequest ==
  /\ pc = "upgrade"
  /\ upgrades' = upgrades + 1
  /\ \E ok \in BOOLEAN :
       IF ok THEN conn' = "open" /\ pc' = "setup" /\ UNCHANGED <<status, connHeader>>
             ELSE conn' = conn /\ BadRequest
  /\ UNCHANGED <<request, fd, fdOpen, ticker, duration, loopVars, frames,
                 clock, history>>

\* Lines 60-66: the upgrade, which may fail.
Upgrade ==
  /\ pc = "upgrade"
  /\ upgrades' = upgrades + 1
  /\ \E ok \in BOOLEAN :
       IF ok THEN conn' = "open" /\ pc' = "setup"
             ELSE conn' = conn /\ pc' = "returned"
  /\ UNCHANGED <<request, status, connHeader, fd, fdOpen, ticker, duration,
                 loopVars, frames, clock, history>>

\* Lines 73-75: the BBR file descriptor (-1 when there is none), the read
\* limit, and the deferred conn.Close().
Setup ==
  /\ pc = "setup"
  /\ \E f \in {-1, 1} : fd' = f /\ fdOpen' = (f # -1)
  /\ pc' = "prepare"
  /\ UNCHANGED <<request, response, conn, ticker, duration, loopVars, frames,
                 clock, history>>

\* Lines 76-84: the prepared message, which may fail.
Prepare ==
  /\ pc = "prepare"
  /\ \E ok \in BOOLEAN :
       IF ok THEN pc' = "start" /\ UNCHANGED resources
             ELSE Return
  /\ UNCHANGED <<request, response, duration, loopVars, frames, clock, history>>

\* Lines 85-91: the ticker, t0, count, bandwidth, running.
Start ==
  /\ pc = "start"
  /\ ticker' = "running"
  /\ tickCh' = <<>> /\ now' = 0
  /\ count' = 0 /\ bandwidth' = 0 /\ running' = TRUE
  /\ pc' = "loop"
  /\ UNCHANGED <<request, response, conn, fd, fdOpen, duration, measurement,
                 nSamples, stopReason, frames, history>>

\* Elapsed taken from time.Now() instead of the tick's timestamp.
MeasurementAt_Now(t) == [Elapsed |-> now, NumBytes |-> count]

\* Lines 96-99: the record of the tick with timestamp t (t0 is time 0).
MeasurementAt(t) == [Elapsed |-> t, NumBytes |-> count]

\* bandwidth = bw placed after the test of err: a failed read, which
\* returns a zero bandwidth, overwrites the retained value.
SampleBW_AssignOnError ==
  \E s \in SampleOutcomes :
    IF fd # -1 /\ ~s.err
      THEN /\ running' = ~stoppableAccordingToBW(bandwidth, s.bw)
           /\ bandwidth' = s.bw
           /\ nSamples' = nSamples + 1
           /\ stopReason' = IF running' THEN stopReason ELSE "bw"
           /\ lastBW' = s.bw /\ prevBW' = bandwidth
      ELSE /\ s.bw = 0 /\ (fd = -1 => s.err)
           /\ bandwidth' = IF fd # -1 THEN s.bw ELSE bandwidth
           /\ UNCHANGED <<running, nSamples, stopReason, lastBW, prevBW>>

\* Lines 100-118: the sample, the stop decision, the retained bandwidth.
SampleBW ==
  \E s \in SampleOutcomes :
    IF fd # -1 /\ ~s.err
      THEN /\ running' = ~stoppableAccordingToBW(bandwidth, s.bw)
           /\ bandwidth' = s.bw
           /\ nSamples' = nSamples + 1
           /\ stopReason' = IF running' THEN stopReason ELSE "bw"
           /\ lastBW' = s.bw /\ prevBW' = bandwidth
      ELSE /\ s.bw = 0 /\ (fd = -1 => s.err)
           /\ UNCHANGED <<running, bandwidth, nSamples, stopReason, lastBW,
                          prevBW>>

\* The loop left as soon as the stop is decided: the tick's record is lost.
WriteMeasurement_SkipWhenStopped ==
  IF ~running'
    THEN /\ tickCh' = <<>> /\ now' = now /\ pc' = "loop"
         /\ UNCHANGED <<nMeas, lastFrame, measAt, failed, resources>>
    ELSE \E d \in 0..MaxWriteTime, ok \in BOOLEAN :
           /\ Blocks(d)
           /\ tickCh' = TickChAfter(<<>>, now, d)
           /\ IF ok
                THEN /\ nMeas' = nMeas + 1 /\ lastFrame' = "meas"
                     /\ measAt' = now
                     /\ pc' = "loop"
                     /\ UNCHANGED <<failed, resources>>
                ELSE /\ WriteFailed
                     /\ UNCHANGED <<nMeas, lastFrame, measAt>>

\* Lines 119-123: the measurement record is written, whatever the decision.
WriteMeasurement ==
  \E d \in 0..MaxWriteTime, ok \in BOOLEAN :
    /\ Blocks(d)
    /\ tickCh' = TickChAfter(<<>>, now, d)
    /\ IF ok
         THEN /\ nMeas' = nMeas + 1 /\ lastFrame' = "meas"
              /\ measAt' = now
              /\ pc' = "loop"
              /\ UNCHANGED <<failed, resources>>
         ELSE /\ WriteFailed
              /\ UNCHANGED <<nMeas, lastFrame, measAt>>

\* Lines 93-123: a tick is pending.
TickCase ==
  /\ pc = "loop" /\ running /\ tickCh # <<>>
  /\ measurement' = MeasurementAt(Head(tickCh))
  /\ SampleBW
  /\ WriteMeasurement
  /\ UNCHANGED <<request, response, duration, count, nData, closeFrames>>

\* The operands swapped: the duration compared with the elapsed time.
DurationElapsed_Reversed == duration >= now

\* The comparison with > for >=.
DurationElapsed_Gt == now > duration

\* Line 125: time.Now().Sub(t0) >= duration.
DurationElapsed == now >= duration

\* The duration checked before the select: a pending tick is not served.
DefaultExpired_BeforeTick ==
  /\ pc = "loop" /\ running
  /\ DurationElapsed
  /\ running' = FALSE
  /\ stopReason' = "duration"
  /\ UNCHANGED <<request, pc, response, resources, duration, count, bandwidth,
                 measurement, nSamples, frames, clock, history>>

\* Lines 124-128: no tick is pending and the duration has elapsed.
DefaultExpired ==
  /\ pc = "loop" /\ running /\ tickCh = <<>>
  /\ DurationElapsed
  /\ running' = FALSE
  /\ stopReason' = "duration"
  /\ UNCHANGED <<request, pc, response, resources, duration, count, bandwidth,
                 measurement, nSamples, frames, clock, history>>

\* Lines 124-134: no tick is pending: one more data frame.
DefaultSend ==
  /\ pc = "loop" /\ running /\ tickCh = <<>>
  /\ ~DurationElapsed
  /\ nData < MaxFrames
  /\ \E d \in 0..MaxWriteTime, ok \in BOOLEAN :
       /\ Blocks(d)
       /\ tickCh' = TickChAfter(tickCh, now, d)
       /\ count' = CountAfterWrite(count, ok)
       /\ IF ok
            THEN /\ nData' = nData + 1 /\ lastFrame' = "data"
                 /\ pc' = "loop"
                 /\ UNCHANGED <<failed, resources>>
            ELSE /\ WriteFailed
                 /\ UNCHANGED <<nData, lastFrame>>
  /\ UNCHANGED <<request, response, duration, running, bandwidth, measurement,
                 nSamples, stopReason, nMeas, closeFrames, history>>

\* The handler returns when the loop ends, without the close frame.
Close_NoFrame ==
  /\ pc = "loop" /\ ~running
  /\ Return
  /\ UNCHANGED <<request, response, duration, loopVars, frames, clock, history>>

\* Lines 91, 137-140: running is false: the close frame, then return.
Close ==
  /\ pc = "loop" /\ ~running
  /\ \E d \in 0..MaxWriteTime :
       /\ Blocks(d)
       /\ tickCh' = TickChAfter(tickCh, now, d)
  /\ closeFrames' =
       Append(closeFrames, [code |-> CloseNormalClosure, reason |-> ""])
  /\ lastFrame' = "close"
  /\ Return
  /\ UNCHANGED <<request, response, duration, loopVars, nData, nMeas, failed,
                 history>>

Next ==
  \/ ParseDuration
  \/ CheckProtocol
  \/ Upgrade
  \/ Setup
  \/ Prepare
  \/ Start
  \/ TickCase
  \/ DefaultExpired
  \/ DefaultSend
  \/ Close

Spec == Init /\ [][Next]_vars

\* --------------------------------------------------- the loop, for ever
\* The loop compares times only with each other, with t0 + duration and
\* with the ticker's period, so a state in which the duration elapsed at
\* least one period ago behaves like the same state one period earlier.
\* Rebase moves the origin of time by one period and forgets the record
\* and the sample of one period: it lets a run that goes on for ever be
\* followed within the horizon.
Rebase ==
  /\ pc = "loop" /\ running
  /\ now >= duration + MinMeasurementInterval
  /\ now' = now - MinMeasurementInterval
  /\ tickCh' = IF tickCh = <<>> THEN <<>>
               ELSE <<Head(tickCh) - MinMeasurementInterval>>
  /\ measurement' =
       [measurement EXCEPT !.Elapsed = @ - MinMeasurementInterval]
  /\ measAt' = measAt - MinMeasurementInterval
  /\ nMeas' = IF nMeas > 1 THEN nMeas - 1 ELSE nMeas
  /\ nSamples' = IF nSamples > 1 THEN nSamples - 1 ELSE nSamples
  /\ UNCHANGED <<request, pc, response, resources, duration, running, count,
                 bandwidth, stopReason, nData, closeFrames, lastFrame, failed,
                 lastBW, prevBW>>

\* Requests that are accepted, with a duration within the horizon.
InitLive ==
  /\ Init
  /\ query \in {<<"0">>, <<"1">>}
  /\ protoHeader = SecWebSocketProtocol

NextLive == Next \/ Rebase

\* The handler's goroutine is never suspended for ever: a step that can be
\* taken is taken.
LiveSpec == InitLive /\ [][NextLive]_vars /\ WF_vars(NextLive)

\* ------------------------------------------------------------- claims
\* A fresh bandwidth sample was obtained in this step: bandwidth is the
\* previous sample (prev), bandwidth' the fresh one (cur).
FreshSample == nSamples' # nSamples

\* Frames written so far, of any kind.
FramesWritten == nData + nMeas + Len(closeFrames)

\* C1: for all samples prev, cur >= 0 the stop decision taken on a fresh
\* sample is "stop" exactly when cur >= prev and cur - prev < 0.25 * prev,
\* i.e. when prev <= cur and 4 * cur < 5 * prev.
C1_StopIffPlateau ==
  [][FreshSample =>
       (~running' <=> (bandwidth <= bandwidth' /\ 4 * bandwidth' < 5 * bandwidth))]_vars

\* The stop fired on the sample 120 after the sample 100.
C1_Witness == stopReason = "bw" /\ bandwidth = 120 /\ nSamples = 2

\* C2: the first fresh sample of a session never produces a stop decision:
\* a stop by the heuristic needs at least two samples.
C2_FirstSampleNeverStops ==
  [][(nSamples = 0 /\ FreshSample) => (running' /\ stopReason' # "bw")]_vars

\* The first sample, 125 bytes/s, was taken and the loop goes on.
C2_Witness == nSamples = 1 /\ bandwidth = 125 /\ pc = "loop" /\ running

\* C3 as stated: with prev = 0 the stopping inequality holds for every
\* cur >= 0, so the decision on a fresh sample is "stop".
C3_ZeroPrevStops ==
  [][(FreshSample /\ bandwidth = 0) => ~running']_vars

\* C3 amended: with prev = 0 the stopping inequality holds for no cur >= 0
\* (cur - 0 < 0.25 * 0 is false), so the decision is never "stop".
C3_ZeroPrevNeverStops ==
  [][(FreshSample /\ bandwidth = 0) => (running' /\ stopReason' = stopReason)]_vars

\* The first sample, 0 bytes/s, was compared with the retained value 0 and
\* the loop goes on.
C3_Witness ==
  nSamples = 1 /\ bandwidth = 0 /\ pc = "loop" /\ stopReason = "none"

RECURSIVE Decimal(_)
\* The decimal notation of the integer n.
Decimal(n) ==
  IF n < 0 THEN <<"-">> \o Decimal(0 - n)
  ELSE IF n < 10 THEN <<DigitChars[n + 1]>>
  ELSE Decimal(n \div 10) \o <<DigitChars[(n % 10) + 1]>>

\* C4: the validator accepts an absent duration (10 s) and an integer in
\* [0, 30] (that many seconds); for any other value it answers 400 with
\* Connection: Close, attempts no upgrade and sends no frame.
C4_Validator ==
  [][pc = "parse" =>
       IF query = <<>>
         THEN pc' = "negotiate" /\ status' = 0 /\ duration' = 10 * Second
       ELSE IF \E n \in 0..30 : query = Decimal(n)
         THEN /\ pc' = "negotiate" /\ status' = 0
              /\ \E n \in 0..30 : query = Decimal(n) /\ duration' = n * Second
       ELSE /\ pc' = "returned" /\ status' = 400 /\ connHeader' = "Close"
            /\ upgrades' = 0 /\ conn' = "none" /\ FramesWritten' = 0]_vars

\* duration=31 was refused.
C4_Witness ==
  /\ query = <<"3", "1">> /\ pc = "returned"
  /\ status = 400 /\ connHeader = "Close"

\* C5: a request whose subprotocol header is missing or wrong never
\* reaches the upgrade, and ends with 400 and Connection: Close, whatever
\* its duration parameter.
C5_ProtocolRequired ==
  protoHeader # "net.measurementlab.ndt.v7" =>
    /\ pc \in {"parse", "negotiate", "returned"}
    /\ upgrades = 0 /\ conn = "none" /\ FramesWritten = 0
    /\ (pc = "returned" => status = 400 /\ connHeader = "Close")

\* A request with a valid duration and no subprotocol header was refused.
C5_Witness ==
  /\ protoHeader = "" /\ query = <<"3", "0">> /\ pc = "returned"
  /\ status = 400 /\ duration = 30 * Second


\* C6: the byte counter never decreases, it is 8192 times the number of
\* data frames written (a failed write does not advance it), and so is
\* the NumBytes of every measurement record sent.
C6_ByteCounter ==
  [][/\ count' >= count
     /\ count' = 8192 * nData'
     /\ (nMeas' # nMeas => measurement'.NumBytes = 8192 * nData')]_vars

\* A measurement record reporting two data frames was sent.
C6_Witness == nMeas >= 1 /\ measurement.NumBytes = 2 * 8192 /\ lastFrame = "meas"

\* C7: the step in which a data or measurement write fails writes no
\* frame and ends the handler with the connection closed and no close
\* frame; nothing is written afterwards.
C7_FailedWriteIsFatal ==
  [][/\ failed' =>
          /\ pc' = "returned" /\ conn' = "closed" /\ closeFrames' = <<>>
          /\ nData' = nData /\ nMeas' = nMeas /\ lastFrame' = lastFrame
     /\ failed => UNCHANGED vars]_vars

\* A write failed after data and measurement frames had been written.
C7_Witness ==
  failed /\ nData >= 1 /\ nMeas >= 1 /\ pc = "returned" /\ conn = "closed"

\* C8: a session whose loop ended with no write failure has written, when
\* the handler has returned, exactly one close frame (normal closure, empty
\* reason); it is the last frame and the connection is closed.  No
\* session writes two close frames or any frame after a close frame.
C8_NormalClose ==
  /\ Len(closeFrames) <= 1
  /\ (lastFrame = "close" <=> closeFrames # <<>>)
  /\ (closeFrames # <<>> => pc = "returned")
  /\ (pc = "returned" /\ stopReason # "none" /\ ~failed) =>
       /\ closeFrames = <<[code |-> 1000, reason |-> ""]>>
       /\ lastFrame = "close"
       /\ conn = "closed"

\* The stop heuristic ended the loop and the close frame was written.
C8_Witness ==
  /\ pc = "returned" /\ stopReason = "bw" /\ ~failed
  /\ Len(closeFrames) = 1 /\ nData >= 1

\* C9: when the handler of an upgraded session has returned, the
\* connection is closed and the BBR file descriptor, if one was obtained,
\* is closed.
C9_ResourcesReleased ==
  (pc = "returned" /\ conn # "none") => (conn = "closed" /\ ~fdOpen)

TickStep == pc = "loop" /\ running /\ tickCh # <<>>

\* A measurement record was written in this step, after an earlier one.
NextRecord == nMeas' = nMeas + 1 /\ nMeas >= 1

\* C11: the writes of two consecutive measurement records are called at
\* least one measurement interval apart and, while no stop was decided,
\* at most one interval plus one ticker period apart.
C11_RecordSpacing ==
  [][NextRecord =>
       /\ measAt' - measAt >= MinMeasurementInterval
       /\ (stopReason' = "none" =>
             measAt' - measAt <= 2 * MinMeasurementInterval)]_vars

\* C12: a tick without a fresh sample (no descriptor, or a failed read)
\* leaves running, the stop decision and the retained bandwidth as they
\* were; a tick with a fresh sample decides once, against the retained
\* value, and the retained value becomes the sample whatever the decision.
C12_TickSampling ==
  [][TickStep =>
       IF FreshSample
         THEN /\ fd # -1 /\ nSamples' = nSamples + 1
              /\ prevBW' = bandwidth
              /\ (running' <=> ~(prevBW' <= lastBW' /\ 4 * lastBW' < 5 * prevBW'))
              /\ bandwidth' = lastBW'
         ELSE /\ running' = running /\ stopReason' = stopReason
              /\ bandwidth' = bandwidth]_vars

\* Two ticks were served with a descriptor, one read failed, and the
\* value retained is the sample of the other one.
C12_Witness ==
  /\ fd # -1 /\ nMeas = 2 /\ nSamples = 1 /\ bandwidth = 100
  /\ pc = "loop" /\ running

\* C13: the loop is left normally only after the elapsed time was seen to
\* be at least the duration, or after the heuristic fired on a fresh
\* sample; without a descriptor, or with no sample read, never early.
C13_NoEarlyEnd ==
  ((pc = "loop" /\ ~running) \/ closeFrames # <<>>) =>
    /\ stopReason \in {"duration", "bw"}
    /\ (stopReason = "duration" => now >= duration)
    /\ (stopReason = "bw" =>
          /\ fd # -1 /\ nSamples >= 1
          /\ prevBW <= lastBW /\ 4 * lastBW < 5 * prevBW)
    /\ ((fd = -1 \/ nSamples = 0) => now >= duration)

\* A one-second session without a descriptor sent records and closed
\* after its duration.
C13_Witness ==
  /\ fd = -1 /\ query = <<"1">> /\ closeFrames # <<>> /\ nMeas >= 1
  /\ now >= duration

\* C14: the stop fires at the first fresh sample that satisfies the
\* inequality against the retained one, and no sample is read afterwards:
\* after 100, the sample 120 stops the test and 125 is never read.
C14_StopsAtFirstPlateau ==
  [][/\ FreshSample => (running /\ stopReason = "none")
     /\ (FreshSample /\ bandwidth <= lastBW' /\ 4 * lastBW' < 5 * bandwidth) =>
          (~running' /\ stopReason' = "bw")
     /\ (FreshSample /\ bandwidth = 100 /\ lastBW' = 120) => ~running'
     /\ stopReason = "bw" => (nSamples' = nSamples /\ lastBW' = lastBW)]_vars

\* The samples were 100 and 120, the test stopped and the handler returned.
C14_Witness ==
  /\ nSamples = 2 /\ prevBW = 100 /\ lastBW = 120
  /\ stopReason = "bw" /\ pc = "returned"

\* C15: a pending tick is served before anything else; without a pending
\* tick the duration is checked, and a data frame is written only when
\* the elapsed time is below the duration; the step taken without a
\* pending tick is never a wait.
C15_TickFirst ==
  [][/\ TickStep =>
          /\ measurement' = [Elapsed |-> Head(tickCh), NumBytes |-> count]
          /\ (nMeas' = nMeas + 1 \/ failed')
          /\ nData' = nData /\ stopReason' # "duration"
     /\ (pc = "loop" /\ running /\ tickCh = <<>>) =>
          /\ nMeas' = nMeas /\ measurement' = measurement
          /\ IF now >= duration
               THEN /\ ~running' /\ stopReason' = "duration"
                    /\ nData' = nData /\ now' = now
               ELSE nData' = nData + 1 \/ failed'
     /\ nData' # nData => (tickCh = <<>> /\ now < duration)]_vars

\* A tick that fell due at the expiry of the duration was reported before
\* the loop ended.
C15_Witness ==
  /\ stopReason = "duration" /\ duration > 0 /\ lastFrame = "meas"
  /\ measurement.Elapsed >= duration

\* C16: the tick on which the stop is decided still writes its record;
\* if that write fails the handler returns with no close frame, otherwise
\* the next frame is the close frame.
C16_StopTickReports ==
  [][/\ (FreshSample /\ ~running') =>
          \/ /\ nMeas' = nMeas + 1 /\ lastFrame' = "meas" /\ pc' = "loop"
             /\ measurement'.Elapsed = Head(tickCh)
          \/ failed' /\ pc' = "returned" /\ closeFrames' = <<>>
     /\ (pc = "loop" /\ stopReason = "bw") =>
          /\ Len(closeFrames') = 1 /\ lastFrame' = "close"
          /\ nData' = nData /\ nMeas' = nMeas /\ pc' = "returned"]_vars

\* The stop was decided on the second tick, whose record was written, and
\* the close frame followed.
C16_Witness ==
  /\ stopReason = "bw" /\ nMeas = 2 /\ nSamples = 2 /\ ~failed
  /\ lastFrame = "close" /\ measurement.Elapsed = 2 * MinMeasurementInterval

\* C17: a request that ends before the loop, by a failed upgrade or a
\* failed message preparation, writes no frame and no HTTP response, and
\* does not leave the connection open.
C17_PreLoopFailure ==
  (pc = "returned" /\ upgrades = 1 /\ ticker = "none") =>
    /\ FramesWritten = 0 /\ count = 0
    /\ status = 0 /\ connHeader = ""
    /\ conn # "open"

\* The preparation of the message failed after the upgrade.
C17_Witness ==
  pc = "returned" /\ upgrades = 1 /\ ticker = "none" /\ conn = "closed"

\* C19: the Elapsed of each record written is the timestamp of the tick
\* that triggered it, greater than that of the record before; a tick is
\* received once.
C19_ElapsedIncreases ==
  [][nMeas' = nMeas + 1 =>
       /\ measurement'.Elapsed = Head(tickCh)
       /\ measurement'.Elapsed <= now
       /\ (nMeas >= 1 => measurement'.Elapsed > measurement.Elapsed)
       /\ (tickCh' # <<>> => Head(tickCh') > Head(tickCh))]_vars

\* The second record was written later than the tick it reports.
C19_Witness == nMeas = 2 /\ measurement.Elapsed < measAt /\ lastFrame = "meas"

\* C20: a session with duration=0 writes no data frame and no record and
\* its counter stays 0; its only frame is the close frame.
C20_ZeroDuration ==
  (query = <<"0">> /\ ticker # "none") =>
    /\ nData = 0 /\ nMeas = 0 /\ count = 0
    /\ (pc = "returned" =>
          closeFrames = <<[code |-> 1000, reason |-> ""]>> /\ lastFrame = "close")

\* The close frame of a duration=0 session was written.
C20_Witness ==
  /\ query = <<"0">> /\ duration = 0 /\ pc = "returned"
  /\ lastFrame = "close" /\ FramesWritten = 1

\* C18: every session that entered the loop eventually returns (or, in
\* the model, reaches its bound of MaxFrames data frames), given that the
\* handler keeps taking steps and every write returns.
C18_Terminates ==
  (pc = "loop") ~> (pc = "returned" \/ nData = MaxFrames)

====
